---- MODULE Spec2Model ----
(***************************************************************************)
(* RedisClient of proxypool/storages/redis.py: a registry of proxies kept  *)
(* in one Redis sorted set (REDIS_KEY), member = "host:port", score = the  *)
(* proxy's reliability.                                                    *)
(*                                                                         *)
(* Three specifications share the store variable db:                       *)
(*   SeqSpec  one caller; every method of RedisClient runs start to finish *)
(*            as one step (op, ret, proxies record the call made).         *)
(*   RankSpec the reading methods (random, count, all, batch) applied once *)
(*            to a store drawn from every store of up to NumRankHosts      *)
(*            members that SeqSpec's writers can build.                    *)
(*   Spec     NumProcs callers; every Redis command is one atomic step and *)
(*            the commands of one method interleave with other callers.    *)
(*                                                                         *)
(* The score constants come from proxypool/setting.py (0, 10, 100 there).  *)
(* The model keeps PROXY_SCORE_MIN = 0 and the order MIN < MIN+1 < INIT <  *)
(* MAX but scales INIT and MAX down, so that a store with more members     *)
(* than ranks PROXY_SCORE_MIN..PROXY_SCORE_MAX is within reach of TLC.     *)
(***************************************************************************)
EXTENDS Integers, Sequences, FiniteSets, TLC

PROXY_SCORE_MIN == 0
PROXY_SCORE_INIT == 2
PROXY_SCORE_MAX == 3

\* Bounds of the model.
NumHosts == 3
NumRankHosts == 5
NumRaceHosts == 1
NumProcs == 2
MaxIndex == 3

VARIABLES db, op, ret, proxies, pc, arg, score

vars == <<db, op, ret, proxies, pc, arg, score>>
seqvars == <<op, ret, proxies>>
procvars == <<pc, arg, score>>

----------------------------------------------------------------------------
\* Proxies and their canonical strings.

Ports == {80}
\* Host 0 stands for a host that is no IP address (a malformed endpoint).
BadHost == 0
Proxy(h, n) == [host |-> h, port |-> n]
ValidProxies == {Proxy(h, n) : h \in 1..NumHosts, n \in Ports}
InvalidProxies == {Proxy(BadHost, n) : n \in Ports}
RankProxies == {Proxy(h, n) : h \in 1..NumRankHosts, n \in Ports}
RaceProxies == {Proxy(h, n) : h \in 1..NumRaceHosts, n \in Ports}

\* Proxy.string(): f'{host}:{port}', here the pair <<host, port>>.
string(proxy) == <<proxy.host, proxy.port>>

\* The format validator of proxypool.utils.proxy.
is_valid_proxy(s) == s[1] # BadHost /\ s[2] \in Ports

\* convert_proxy_or_proxies on one string: split at ':' and build the Proxy.
convert_proxy(s) == Proxy(s[1], s[2])

\* convert_proxy_or_proxies on a list of strings.
convert_proxies(l) == [i \in 1..Len(l) |-> convert_proxy(l[i])]

\* Lexicographic order of member strings (Redis breaks score ties by it).
StrLess(a, b) == a[1] < b[1] \/ (a[1] = b[1] /\ a[2] < b[2])

----------------------------------------------------------------------------
\* Python values.

None == <<>>
Some(x) == <<x>>
\* bool(x) of an Optional[float]: None and 0.0 are falsy.
Truthy(x) == x # None /\ x[1] # 0

RNone == [type |-> "NoneType", val |-> 0]
RInt(n) == [type |-> "int", val |-> n]
RFloat(x) == [type |-> "float", val |-> x]
RBool(b) == [type |-> "bool", val |-> IF b THEN 1 ELSE 0]
RProxy(p) == [type |-> "Proxy", val |-> p]
RList(l) == [type |-> "list", val |-> l]
RRaise == [type |-> "PoolEmptyException", val |-> 0]

----------------------------------------------------------------------------
\* The Redis sorted set: d is a function from its members to their scores.

EmptyDb == [m \in {} |-> 0]

\* ZSCORE key member
zscore(d, m) == IF m \in DOMAIN d THEN Some(d[m]) ELSE None

\* ZADD key score member: insert or overwrite.
zadd(d, m, s) == [x \in DOMAIN d \cup {m} |-> IF x = m THEN s ELSE d[x]]

\* What ZADD returns: the number of members newly added.
zadd_reply(d, m) == IF m \in DOMAIN d THEN 0 ELSE 1

\* ZINCRBY key delta member: a missing member counts as score 0.
zincrby(d, delta, m) ==
    zadd(d, m, (IF m \in DOMAIN d THEN d[m] ELSE 0) + delta)

\* Mutant of zrem: DEL key, which drops every member.
zrem_key(d, m) == [x \in {} |-> 0]

\* ZREM key member
zrem(d, m) == [x \in DOMAIN d \ {m} |-> d[x]]

\* What ZREM returns: the number of members removed.
zrem_reply(d, m) == IF m \in DOMAIN d THEN 1 ELSE 0

\* ZCARD key
zcard(d) == Cardinality(DOMAIN d)

\* The order of the sorted set: by score, ties by member string.
ZLess(d, a, b) == d[a] < d[b] \/ (d[a] = d[b] /\ StrLess(a, b))

\* Zero-based ascending rank of a member.
zrank(d, m) == Cardinality({x \in DOMAIN d : ZLess(d, x, m)})

\* The members in ascending order.
zsorted(d) ==
    [i \in 1..zcard(d) |-> CHOOSE m \in DOMAIN d : zrank(d, m) = i - 1]

\* Mutant of zrangebyscore: the upper bound taken as exclusive.
zrangebyscore_open(d, lo, hi) ==
    LET InRange(m) == lo <= d[m] /\ d[m] < hi
    IN  SelectSeq(zsorted(d), InRange)

\* ZRANGEBYSCORE key lo hi: ascending, both bounds inclusive.
zrangebyscore(d, lo, hi) ==
    LET InRange(m) == lo <= d[m] /\ d[m] <= hi
    IN  SelectSeq(zsorted(d), InRange)

\* Mutant of zrevrange: the stop index taken as exclusive.
zrevrange_exclusive(d, start, stop) ==
    LET llen == zcard(d)
        s1 == IF start < 0 THEN llen + start ELSE start
        e0 == IF stop < 0 THEN llen + stop ELSE stop
        e1 == e0 - 1
        s2 == IF s1 < 0 THEN 0 ELSE s1
        e2 == IF e1 >= llen THEN llen - 1 ELSE e1
        asc == zsorted(d)
    IN  IF s2 > e1 \/ s2 >= llen
        THEN <<>>
        ELSE [i \in 1..(e2 - s2 + 1) |-> asc[llen - (s2 + i - 1)]]

\* ZREVRANGE key start stop: descending order, both indices inclusive,
\* a negative index counts from the end of the set.
zrevrange(d, start, stop) ==
    LET llen == zcard(d)
        s1 == IF start < 0 THEN llen + start ELSE start
        e1 == IF stop < 0 THEN llen + stop ELSE stop
        s2 == IF s1 < 0 THEN 0 ELSE s1
        e2 == IF e1 >= llen THEN llen - 1 ELSE e1
        asc == zsorted(d)
    IN  IF s2 > e1 \/ s2 >= llen
        THEN <<>>
        ELSE [i \in 1..(e2 - s2 + 1) |-> asc[llen - (s2 + i - 1)]]

----------------------------------------------------------------------------
\* The methods of RedisClient as functions of the store. A method that writes
\* yields the new store and the value returned.

\* Mutant of exists: the score tested for truth instead of "is None".
exists_truthy(d, proxy) == Truthy(zscore(d, string(proxy)))

\* exists: not self.db.zscore(REDIS_KEY, proxy.string()) is None
exists(d, proxy) == zscore(d, string(proxy)) # None

\* Mutant of add: the validator is not asked.
add_unvalidated(d, proxy, s) ==
    IF zscore(d, string(proxy)) = None
    THEN [db |-> zadd(d, string(proxy), s),
          ret |-> RInt(zadd_reply(d, string(proxy)))]
    ELSE [db |-> d, ret |-> RNone]

\* add: validate, then exists, then ZADD when the proxy is not stored.
add(d, proxy, s) ==
    IF ~is_valid_proxy(string(proxy))
    THEN [db |-> d, ret |-> RNone]
    ELSE IF ~exists(d, proxy)
         THEN [db |-> zadd(d, string(proxy), s),
               ret |-> RInt(zadd_reply(d, string(proxy)))]
         ELSE [db |-> d, ret |-> RNone]

\* Mutant of decrease_write: "score is not None and score >= MIN".
decrease_write_ge(d, proxy, sc) ==
    IF sc # None /\ sc[1] >= PROXY_SCORE_MIN
    THEN [db |-> zincrby(d, -1, string(proxy)),
          ret |-> RFloat(zincrby(d, -1, string(proxy))[string(proxy)])]
    ELSE [db |-> zrem(d, string(proxy)),
          ret |-> RInt(zrem_reply(d, string(proxy)))]

\* Mutant of decrease_write: the decrement stored with ZADD of the score
\* read minus one, the value returned left at the score read.
decrease_write_stale(d, proxy, sc) ==
    IF Truthy(sc) /\ sc[1] > PROXY_SCORE_MIN
    THEN [db |-> zadd(d, string(proxy), sc[1] - 1),
          ret |-> RFloat(sc[1])]
    ELSE [db |-> zrem(d, string(proxy)),
          ret |-> RInt(zrem_reply(d, string(proxy)))]

\* Mutant of decrease_write: "if score:" without the comparison.
decrease_write_truthy(d, proxy, sc) ==
    IF Truthy(sc)
    THEN [db |-> zincrby(d, -1, string(proxy)),
          ret |-> RFloat(zincrby(d, -1, string(proxy))[string(proxy)])]
    ELSE [db |-> zrem(d, string(proxy)),
          ret |-> RInt(zrem_reply(d, string(proxy)))]

\* Mutant of decrease_write: the else branch without its ZREM.
decrease_write_keep(d, proxy, sc) ==
    IF Truthy(sc) /\ sc[1] > PROXY_SCORE_MIN
    THEN [db |-> zincrby(d, -1, string(proxy)),
          ret |-> RFloat(zincrby(d, -1, string(proxy))[string(proxy)])]
    ELSE [db |-> d, ret |-> RInt(0)]

\* decrease after its ZSCORE: sc is the score it read.
decrease_write(d, proxy, sc) ==
    IF Truthy(sc) /\ sc[1] > PROXY_SCORE_MIN
    THEN [db |-> zincrby(d, -1, string(proxy)),
          ret |-> RFloat(zincrby(d, -1, string(proxy))[string(proxy)])]
    ELSE [db |-> zrem(d, string(proxy)),
          ret |-> RInt(zrem_reply(d, string(proxy)))]

\* decrease, run without interference.
decrease(d, proxy) == decrease_write(d, proxy, zscore(d, string(proxy)))

\* Mutant of max: ZADD NX, which leaves a stored member alone.
max_nx(d, proxy) ==
    [db |-> IF string(proxy) \in DOMAIN d
            THEN d
            ELSE zadd(d, string(proxy), PROXY_SCORE_MAX),
     ret |-> RInt(zadd_reply(d, string(proxy)))]

\* max: ZADD with PROXY_SCORE_MAX, no test of existence.
max(d, proxy) ==
    [db |-> zadd(d, string(proxy), PROXY_SCORE_MAX),
     ret |-> RInt(zadd_reply(d, string(proxy)))]

\* Mutant of random: no fallback to the ranks.
random_max_only(d) == zrangebyscore(d, PROXY_SCORE_MAX, PROXY_SCORE_MAX)

\* random: the list handed to choice(); empty when the method raises.
random(d) ==
    LET first == zrangebyscore(d, PROXY_SCORE_MAX, PROXY_SCORE_MAX)
        second == zrevrange(d, PROXY_SCORE_MIN, PROXY_SCORE_MAX)
    IN  IF Len(first) # 0 THEN first
        ELSE IF Len(second) # 0 THEN second
        ELSE <<>>

\* count
count(d) == zcard(d)

\* all
all(d) ==
    convert_proxies(zrangebyscore(d, PROXY_SCORE_MIN, PROXY_SCORE_MAX))

\* Mutant of batch: ZRANGE (ascending ranks) in place of ZREVRANGE.
batch_ascending(d, start, end) ==
    LET desc == zrevrange(d, 0, -1)
        asc == [i \in 1..Len(desc) |-> desc[Len(desc) + 1 - i]]
        last == IF end - 1 < 0 \/ end - 1 >= Len(asc) THEN Len(asc) ELSE end
    IN  convert_proxies(SubSeq(asc, start + 1, last))

\* batch
batch(d, start, end) == convert_proxies(zrevrange(d, start, end - 1))

----------------------------------------------------------------------------
\* SeqSpec: one caller, one method per step.

Call(name, args) == [name |-> name, args |-> args]

Init ==
    /\ db = EmptyDb
    /\ op = Call("init", <<>>)
    /\ ret = RNone
    /\ proxies = <<>>
    /\ pc = [p \in 1..NumProcs |-> "idle"]
    /\ arg = [p \in 1..NumProcs |-> None]
    /\ score = [p \in 1..NumProcs |-> None]

\* The getter adds what the crawlers yield, always with the default score.
AddScores == {PROXY_SCORE_INIT}

Add(proxy, s) ==
    LET r == add(db, proxy, s)
    IN  /\ db' = r.db
        /\ ret' = r.ret
        /\ op' = Call("add", <<proxy, s>>)
        /\ proxies' = <<>>
        /\ UNCHANGED procvars

Random ==
    LET l == random(db)
    IN  /\ proxies' = l
        /\ IF Len(l) = 0
           THEN ret' = RRaise
           ELSE \E i \in 1..Len(l) : ret' = RProxy(convert_proxy(l[i]))
        /\ op' = Call("random", <<>>)
        /\ UNCHANGED db
        /\ UNCHANGED procvars

Decrease(proxy) ==
    LET r == decrease(db, proxy)
    IN  /\ db' = r.db
        /\ ret' = r.ret
        /\ op' = Call("decrease", <<proxy>>)
        /\ proxies' = <<>>
        /\ UNCHANGED procvars

Exists(proxy) ==
    /\ ret' = RBool(exists(db, proxy))
    /\ op' = Call("exists", <<proxy>>)
    /\ proxies' = <<>>
    /\ UNCHANGED db
    /\ UNCHANGED procvars

Max(proxy) ==
    LET r == max(db, proxy)
    IN  /\ db' = r.db
        /\ ret' = r.ret
        /\ op' = Call("max", <<proxy>>)
        /\ proxies' = <<>>
        /\ UNCHANGED procvars

Count ==
    /\ ret' = RInt(count(db))
    /\ op' = Call("count", <<>>)
    /\ proxies' = <<>>
    /\ UNCHANGED db
    /\ UNCHANGED procvars

All ==
    /\ ret' = RList(all(db))
    /\ op' = Call("all", <<>>)
    /\ proxies' = <<>>
    /\ UNCHANGED db
    /\ UNCHANGED procvars

Batch(start, end) ==
    /\ ret' = RList(batch(db, start, end))
    /\ op' = Call("batch", <<start, end>>)
    /\ proxies' = <<>>
    /\ UNCHANGED db
    /\ UNCHANGED procvars

\* The tester hands decrease and max the proxies it read from the store,
\* which add has validated; only add sees a malformed one.
SeqNext ==
    \/ \E proxy \in ValidProxies \cup InvalidProxies, s \in AddScores :
           Add(proxy, s)
    \/ Random
    \/ \E proxy \in ValidProxies : Decrease(proxy)
    \/ \E proxy \in ValidProxies : Exists(proxy)
    \/ \E proxy \in ValidProxies : Max(proxy)
    \/ Count
    \/ All
    \/ \E start \in 0..MaxIndex, end \in 0..MaxIndex : Batch(start, end)

SeqSpec == Init /\ [][SeqNext]_vars

----------------------------------------------------------------------------
\* RankSpec: a reading method applied once to any store that add, decrease
\* and max build one call at a time (scores PROXY_SCORE_MIN..PROXY_SCORE_MAX).

RankStores ==
    UNION {[S -> PROXY_SCORE_MIN..PROXY_SCORE_MAX] :
               S \in SUBSET {string(proxy) : proxy \in RankProxies}}

RankInit ==
    /\ db \in RankStores
    /\ op = Call("init", <<>>)
    /\ ret = RNone
    /\ proxies = <<>>
    /\ pc = [p \in 1..NumProcs |-> "idle"]
    /\ arg = [p \in 1..NumProcs |-> None]
    /\ score = [p \in 1..NumProcs |-> None]

\* A caller pages with indices of its own or up to what count() told it.
RankNext ==
    /\ op.name = "init"
    /\ \/ Random
       \/ Count
       \/ All
       \/ \E start \in 0..MaxIndex, end \in 0..MaxIndex \cup {count(db)} :
              Batch(start, end)

RankSpec == RankInit /\ [][RankNext]_vars

----------------------------------------------------------------------------
\* Spec: NumProcs concurrent callers of add, decrease, max and all. Each Redis
\* command is one step; a caller between two commands of one method holds
\* the method's locals (arg: the proxy, score: what decrease read).

Procs == 1..NumProcs

\* op, ret and proxies describe the call made by the last step when that step
\* was a whole method (max, all); a step of add or decrease leaves them blank.
Forget ==
    /\ op' = Call("init", <<>>)
    /\ ret' = RNone
    /\ proxies' = <<>>

Return(p) ==
    /\ pc' = [pc EXCEPT ![p] = "idle"]
    /\ arg' = [arg EXCEPT ![p] = None]
    /\ score' = [score EXCEPT ![p] = None]

\* add up to and including self.exists(proxy): lines 40-43.
AddExists(p, proxy) ==
    /\ pc[p] = "idle"
    /\ IF is_valid_proxy(string(proxy)) /\ ~exists(db, proxy)
       THEN /\ pc' = [pc EXCEPT ![p] = "add_zadd"]
            /\ arg' = [arg EXCEPT ![p] = Some(proxy)]
            /\ UNCHANGED score
       ELSE UNCHANGED procvars
    /\ UNCHANGED db
    /\ Forget

\* add's ZADD: line 46.
AddZadd(p) ==
    /\ pc[p] = "add_zadd"
    /\ db' = zadd(db, string(arg[p][1]), PROXY_SCORE_INIT)
    /\ Return(p)
    /\ Forget

\* decrease's ZSCORE: line 76.
DecreaseZscore(p, proxy) ==
    /\ pc[p] = "idle"
    /\ score' = [score EXCEPT ![p] = zscore(db, string(proxy))]
    /\ arg' = [arg EXCEPT ![p] = Some(proxy)]
    /\ pc' = [pc EXCEPT ![p] = "decrease_write"]
    /\ UNCHANGED db
    /\ Forget

\* decrease's ZINCRBY or ZREM: lines 78-86.
DecreaseWrite(p) ==
    /\ pc[p] = "decrease_write"
    /\ db' = decrease_write(db, arg[p][1], score[p]).db
    /\ Return(p)
    /\ Forget

\* max: one ZADD.
MaxZadd(p, proxy) ==
    /\ pc[p] = "idle"
    /\ db' = max(db, proxy).db
    /\ UNCHANGED procvars
    /\ op' = Call("max", <<proxy>>)
    /\ ret' = max(db, proxy).ret
    /\ proxies' = <<>>

\* all: one ZRANGEBYSCORE, by a caller that is inside no other method.
AllRead(p) ==
    /\ pc[p] = "idle"
    /\ All

Next ==
    \E p \in Procs :
        \/ \E proxy \in RaceProxies \cup InvalidProxies : AddExists(p, proxy)
        \/ AddZadd(p)
        \/ \E proxy \in RaceProxies : DecreaseZscore(p, proxy)
        \/ DecreaseWrite(p)
        \/ \E proxy \in RaceProxies : MaxZadd(p, proxy)
        \/ AllRead(p)

Spec == Init /\ [][Next]_vars

----------------------------------------------------------------------------
\* CullSpec: from some point on the callers only call decrease (the tester
\* keeps finding the proxies dead; nothing adds or promotes them again). At
\* that point the store is any store built one call at a time, and callers,
\* all but one at most, may be inside a decrease that has read a score
\* before the last caller built that store. A caller that has read the score
\* goes on to its write (the client call returns), and every proxy keeps
\* being penalized.

RaceStores ==
    UNION {[S -> PROXY_SCORE_MIN..PROXY_SCORE_MAX] :
               S \in SUBSET {string(proxy) : proxy \in RaceProxies}}

ScoresRead == {None} \cup {Some(s) : s \in PROXY_SCORE_MIN..PROXY_SCORE_MAX}

CullInit ==
    /\ db \in RaceStores
    /\ op = Call("init", <<>>)
    /\ ret = RNone
    /\ proxies = <<>>
    /\ pc \in [Procs -> {"idle", "decrease_write"}]
    /\ \E p \in Procs : pc[p] = "idle"
    /\ arg \in [Procs -> {None} \cup {Some(proxy) : proxy \in RaceProxies}]
    /\ score \in [Procs -> ScoresRead]
    /\ \A p \in Procs :
           IF pc[p] = "idle"
           THEN arg[p] = None /\ score[p] = None
           ELSE arg[p] # None

CullNext ==
    \E p \in Procs :
        \/ \E proxy \in RaceProxies : DecreaseZscore(p, proxy)
        \/ DecreaseWrite(p)

CullFair ==
    /\ \A p \in Procs : WF_vars(DecreaseWrite(p))
    /\ \A proxy \in RaceProxies :
           SF_vars(\E p \in Procs : DecreaseZscore(p, proxy))

CullSpec == CullInit /\ [][CullNext]_vars /\ CullFair

----------------------------------------------------------------------------
\* Claims.

\* C1: under any interleaving of add, decrease and max, every stored score
\* lies in PROXY_SCORE_MIN..PROXY_SCORE_MAX.
C1_ScoresInRange ==
    \A m \in DOMAIN db : PROXY_SCORE_MIN <= db[m] /\ db[m] <= PROXY_SCORE_MAX

\* C7: add is an atomic insert-if-absent: the ZADD of an add never changes
\* the score of a record that is stored when the ZADD takes effect.
C7_AddNeverOverwrites ==
    [][\A p \in Procs :
          (pc[p] = "add_zadd" /\ pc'[p] = "idle"
             /\ string(arg[p][1]) \in DOMAIN db)
          => db'[string(arg[p][1])] = db[string(arg[p][1])]]_vars

----------------------------------------------------------------------------
\* Helpers of the claims about ranks.

NoMax(d) == \A m \in DOMAIN d : d[m] # PROXY_SCORE_MAX
AtMax(d) == {m \in DOMAIN d : d[m] = PROXY_SCORE_MAX}
SeqToSet(l) == {l[i] : i \in 1..Len(l)}

\* Zero-based rank of a stored member in descending order of score: the
\* number of members the sorted set places above it.
DescRank(d, m) == Cardinality({x \in DOMAIN d : ZLess(d, m, x)})
MemberAtDescRank(d, r) == CHOOSE m \in DOMAIN d : DescRank(d, m) = r

\* The proxies at descending ranks start .. end-1 that exist, in that order.
HalfOpenSlice(d, start, end) ==
    LET last == IF end < zcard(d) THEN end ELSE zcard(d)
    IN  IF start >= last
        THEN <<>>
        ELSE [i \in 1..(last - start) |->
                 convert_proxy(MemberAtDescRank(d, start + i - 1))]

\* The members whose descending rank is one of PROXY_SCORE_MIN..PROXY_SCORE_MAX.
TopRanks(d) ==
    {m \in DOMAIN d : DescRank(d, m) \in PROXY_SCORE_MIN..PROXY_SCORE_MAX}

\* C2: decrease of a proxy whose score was reached from PROXY_SCORE_INIT by
\* decrease alone: above PROXY_SCORE_MIN+1 the score drops by exactly 1, and
\* the call that would take it to PROXY_SCORE_MIN removes the proxy, so that
\* exists is false right after and PROXY_SCORE_MIN is never stored.
C2_PenalizeRemovesAtMin ==
    [][\A proxy \in ValidProxies :
          (op'.name = "decrease" /\ op'.args[1] = proxy
             /\ string(proxy) \in DOMAIN db
             /\ db[string(proxy)] > PROXY_SCORE_MIN
             /\ db[string(proxy)] <= PROXY_SCORE_INIT)
          => IF db[string(proxy)] > PROXY_SCORE_MIN + 1
             THEN /\ exists(db', proxy)
                  /\ db'[string(proxy)] = db[string(proxy)] - 1
             ELSE ~exists(db', proxy)]_vars

\* C3: batch(start, end) with 0 <= start <= end returns exactly the proxies
\* at descending ranks start .. end-1 that exist; batch(k, k) is empty.
C3_BatchHalfOpen ==
    (op.name = "batch" /\ op.args[1] <= op.args[2])
    => ret.val = HalfOpenSlice(db, op.args[1], op.args[2])

\* C4 as claimed: with a non-empty store and no score PROXY_SCORE_MAX, random
\* chooses among all stored proxies, whatever their number.
C4_SampleFromAll ==
    (op.name = "random" /\ DOMAIN db # {} /\ NoMax(db))
    => /\ SeqToSet(proxies) = DOMAIN db
       /\ ret.type = "Proxy"
       /\ string(ret.val) \in DOMAIN db

\* C4 as amended: with a non-empty store and no score PROXY_SCORE_MAX, random
\* chooses among exactly the stored proxies at descending ranks
\* PROXY_SCORE_MIN..PROXY_SCORE_MAX; these are all stored proxies when no more
\* than PROXY_SCORE_MAX - PROXY_SCORE_MIN + 1 are stored and the first rank
\* PROXY_SCORE_MIN is 0.
C4_SampleFromTopRanks ==
    (op.name = "random" /\ DOMAIN db # {} /\ NoMax(db))
    => /\ SeqToSet(proxies) = TopRanks(db)
       /\ ret.type = "Proxy"
       /\ string(ret.val) \in TopRanks(db)
       /\ (PROXY_SCORE_MIN = 0
             /\ zcard(db) <= PROXY_SCORE_MAX - PROXY_SCORE_MIN + 1)
          => SeqToSet(proxies) = DOMAIN db

C4_Witness ==
    /\ op.name = "random"
    /\ NoMax(db)
    /\ zcard(db) > PROXY_SCORE_MAX - PROXY_SCORE_MIN + 1
    /\ ret.type = "Proxy"
    /\ DescRank(db, string(ret.val)) = PROXY_SCORE_MAX

\* C5: random raises PoolEmptyException exactly when the store is empty; on
\* a non-empty store it returns a proxy for which exists is true.
C5_SampleRaisesIffEmpty ==
    op.name = "random"
    => /\ (ret.type = "PoolEmptyException") <=> (DOMAIN db = {})
       /\ DOMAIN db # {} => (ret.type = "Proxy" /\ exists(db, ret.val))

C5_Witness ==
    /\ op.name = "random"
    /\ NoMax(db)
    /\ zcard(db) = NumRankHosts
    /\ ret.type = "Proxy"
    /\ db[string(ret.val)] = PROXY_SCORE_MIN

\* C6: while some stored score is PROXY_SCORE_MAX, random chooses among
\* exactly the proxies at PROXY_SCORE_MAX and returns one of them.
C6_SamplePrefersMax ==
    (op.name = "random" /\ ~NoMax(db))
    => /\ SeqToSet(proxies) = AtMax(db)
       /\ ret.type = "Proxy"
       /\ string(ret.val) \in AtMax(db)

C6_Witness ==
    /\ op.name = "random"
    /\ Cardinality(AtMax(db)) = 1
    /\ zcard(db) > 2
    /\ ret.type = "Proxy"
    /\ db[string(ret.val)] = PROXY_SCORE_MAX

\* C8: one call at a time, add of a valid proxy that is absent stores it with
\* PROXY_SCORE_INIT and exists is then true; add of a stored proxy (whatever
\* its score) leaves the store unchanged; a second add changes nothing.
C8_AddInsertsIfAbsent ==
    [][\A proxy \in ValidProxies :
          (op'.name = "add" /\ op'.args[1] = proxy)
          => /\ IF string(proxy) \in DOMAIN db
                THEN db' = db
                ELSE /\ exists(db', proxy)
                     /\ db'[string(proxy)] = PROXY_SCORE_INIT
                     /\ \A m \in DOMAIN db : m \in DOMAIN db' /\ db'[m] = db[m]
                     /\ DOMAIN db' = DOMAIN db \cup {string(proxy)}
             /\ add(db', proxy, op'.args[2]).db = db']_vars

C8_Witness ==
    /\ op.name = "add"
    /\ op.args[1] \in ValidProxies
    /\ exists(db, op.args[1])
    /\ db[string(op.args[1])] = PROXY_SCORE_MIN

\* C9: add of a proxy that fails the validator creates no record, leaves the
\* store unchanged and returns (None) without raising.
C9_AddRejectsInvalid ==
    [][\A proxy \in InvalidProxies :
          (op'.name = "add" /\ op'.args[1] = proxy)
          => /\ db' = db
             /\ ~exists(db', proxy)
             /\ ret'.type = "NoneType"]_vars

C9_Witness ==
    /\ op.name = "add"
    /\ op.args[1] \in InvalidProxies
    /\ ret.type = "NoneType"
    /\ zcard(db) > 0

\* C10: after max(proxy) the proxy is stored with PROXY_SCORE_MAX, whether it
\* was absent (max creates it) or stored with any score before.
C10_PromoteSetsMax ==
    [][\A proxy \in ValidProxies :
          (op'.name = "max" /\ op'.args[1] = proxy)
          => /\ exists(db', proxy)
             /\ db'[string(proxy)] = PROXY_SCORE_MAX
             /\ string(proxy) \notin DOMAIN db => ret'.val = 1]_vars

C10_Witness ==
    /\ op.name = "max"
    /\ ret.val = 1
    /\ db[string(op.args[1])] = PROXY_SCORE_MAX

\* C11: batch(0, count()) returns every stored proxy exactly once, in order
\* of non-increasing score (the empty list on an empty store).
C11_BatchAllDescending ==
    (op.name = "batch" /\ op.args[1] = 0 /\ op.args[2] = count(db))
    => /\ Len(ret.val) = Cardinality(DOMAIN db)
       /\ {string(ret.val[i]) : i \in 1..Len(ret.val)} = DOMAIN db
       /\ \A i \in 1..Len(ret.val) : \A j \in i..Len(ret.val) :
              db[string(ret.val[i])] >= db[string(ret.val[j])]

C11_Witness ==
    /\ op.name = "batch"
    /\ op.args[1] = 0
    /\ op.args[2] = count(db)
    /\ count(db) = NumRankHosts
    /\ Len(ret.val) = NumRankHosts
    /\ db[string(ret.val[1])] > db[string(ret.val[NumRankHosts])]

\* C12: in every reachable state, also under interleaving, all() returns
\* every stored proxy exactly once, so its length is count().
C12_AllReturnsAll ==
    op.name = "all"
    => /\ {string(ret.val[i]) : i \in 1..Len(ret.val)} = DOMAIN db
       /\ Len(ret.val) = count(db)

C14_ScoreStep ==
    \A m \in DOMAIN db \cap DOMAIN db' :
        \/ db'[m] = db[m]
        \/ /\ db'[m] = db[m] - 1
           /\ op'.name = "decrease"
           /\ string(op'.args[1]) = m
        \/ /\ db'[m] = PROXY_SCORE_MAX
           /\ op'.name = "max"
           /\ string(op'.args[1]) = m

C14_AtomicScoresInRange ==
    /\ [](\A m \in DOMAIN db :
             PROXY_SCORE_MIN <= db[m] /\ db[m] <= PROXY_SCORE_MAX)
    /\ [][C14_ScoreStep]_vars

C14_Witness ==
    /\ op.name = "decrease"
    /\ exists(db, op.args[1])
    /\ db[string(op.args[1])] = PROXY_SCORE_MIN
    /\ ret = RFloat(PROXY_SCORE_MIN)

\* The member a caller inside decrease is about to write.
WriteOf(p) == string(arg[p][1])

\* Caller p takes the second step of decrease (its ZINCRBY or ZREM).
DecreaseWrites(p) == pc[p] = "decrease_write" /\ pc'[p] = "idle"

\* C15: decrease never creates a record: the write of a decrease that runs
\* after another caller removed the proxy does not insert it again.
C15_PenalizeNeverCreates ==
    [][\A p \in Procs :
          (DecreaseWrites(p) /\ WriteOf(p) \notin DOMAIN db)
          => WriteOf(p) \notin DOMAIN db']_vars

\* C16: decrease removes a record only if the record's score is at or below
\* PROXY_SCORE_MIN when it is removed: a record that max has set to
\* PROXY_SCORE_MAX is not deleted by a decrease that read an older score.
C16_PenalizeRemovesOnlyLow ==
    [][\A p \in Procs :
          (DecreaseWrites(p) /\ WriteOf(p) \in DOMAIN db
             /\ WriteOf(p) \notin DOMAIN db')
          => db[WriteOf(p)] <= PROXY_SCORE_MIN]_vars

\* The write of caller p's decrease finds the score that p read: nothing
\* has changed the record between the two commands of the call.
Uninterrupted(p) == score[p] = zscore(db, WriteOf(p))

\* C17: a record left with a score at or below PROXY_SCORE_MIN (a race can
\* leave one below it) is removed by the next decrease of it that runs without
\* interference and set to PROXY_SCORE_MAX by the next max of it; a decrease
\* without interference never stores a score below PROXY_SCORE_MIN.
C17_StaleScoreCorrected ==
    [][/\ \A p \in Procs :
             (DecreaseWrites(p) /\ Uninterrupted(p))
             => /\ (WriteOf(p) \in DOMAIN db
                      /\ db[WriteOf(p)] <= PROXY_SCORE_MIN)
                   => WriteOf(p) \notin DOMAIN db'
                /\ WriteOf(p) \in DOMAIN db'
                   => db'[WriteOf(p)] >= PROXY_SCORE_MIN
       /\ op'.name = "max"
          => /\ exists(db', op'.args[1])
             /\ db'[string(op'.args[1])] = PROXY_SCORE_MAX]_vars

\* A record below PROXY_SCORE_MIN whose decrease has read that score.
C17_Witness ==
    \E p \in Procs :
        /\ pc[p] = "decrease_write"
        /\ WriteOf(p) \in DOMAIN db
        /\ db[WriteOf(p)] < PROXY_SCORE_MIN
        /\ Uninterrupted(p)

\* C18: when a proxy is only penalized from some point on, by one or by
\* several callers scheduled fairly, it is eventually absent from the store
\* and stays absent.
C18_CullingTerminates ==
    \A proxy \in RaceProxies : <>[](~exists(db, proxy))

\* A race has put a proxy back below PROXY_SCORE_MIN and every caller has
\* returned: the next decrease of it has to remove it.
C18_Witness ==
    /\ \E proxy \in RaceProxies :
           exists(db, proxy) /\ db[string(proxy)] < PROXY_SCORE_MIN
    /\ \A p \in Procs : pc[p] = "idle"

\* C19: random, exists, count, all and batch leave the store unchanged; add,
\* decrease and max of a proxy leave the presence and the score of every other
\* proxy unchanged; decrease of an absent proxy leaves the store unchanged.
C19_Frame ==
    [][/\ op'.name \in {"random", "exists", "count", "all", "batch"}
          => db' = db
       /\ op'.name \in {"add", "decrease", "max"}
          => \A m \in (DOMAIN db \cup DOMAIN db') \ {string(op'.args[1])} :
                 m \in DOMAIN db /\ m \in DOMAIN db' /\ db'[m] = db[m]
       /\ (op'.name = "decrease" /\ ~exists(db, op'.args[1]))
          => db' = db]_vars

C19_Witness ==
    /\ op.name = "decrease"
    /\ ~exists(db, op.args[1])
    /\ ret = RInt(0)
    /\ zcard(db) >= 2

====
